---------------------------- MODULE Spec2Model ----------------------------
(***************************************************************************)
(* Model of src/main.py: the registration validator (the pydantic model    *)
(* UserCreate) and the two request handlers that use it, POST /register    *)
(* (handle_registration_form) and POST /users/ (create_user_api).          *)
(*                                                                         *)
(* A string is a sequence of characters; a character is a one-token        *)
(* string.  Literal text of the program that is not ASCII is written as a  *)
(* named token.                                                            *)
(***************************************************************************)
EXTENDS Integers, Sequences, FiniteSets, TLC

VARIABLES
    endpoint,      \* per request: the route it was sent to
    phone_number,  \* per request: the raw phone_number submitted
    name,          \* per request: the raw name submitted
    pc,            \* per request: how far the request has got
    user,          \* per request: the UserCreate built from it, or None
    errors,        \* per request: the errors of the ValidationError raised for it
    response,      \* per request: the response sent, or None
    stdout         \* the process's console: what print() has written, in order

vars == <<endpoint, phone_number, name, pc, user, errors, response, stdout>>

None == [none |-> TRUE]

-----------------------------------------------------------------------------
(* Bounds of the model                                                     *)

\* the longest run of consecutive digits in a generated phone number
MaxRun == 5
\* the longest generated name
MaxNameLen == 51
\* the number of requests in flight in the interleaving specification
MaxReq == 2

-----------------------------------------------------------------------------
(* Characters                                                              *)

AsciiDigits == <<"0", "1", "2", "3", "4", "5", "6", "7", "8", "9">>

\* a decimal digit outside ASCII (ARABIC-INDIC DIGIT THREE)
ArabicDigit == "U+0663"

\* the class \d of the pattern: every Unicode decimal digit
IsDigit(c) == (\E i \in 1..Len(AsciiDigits) : AsciiDigits[i] = c) \/ c = ArabicDigit

Hyphen == "-"

-----------------------------------------------------------------------------
(* The pattern and its matching                                            *)

\* an item of a pattern: an assertion, or a character class repeated lo..hi times
Digits(lo, hi) == [kind |-> "class", cls |-> "d", lo |-> lo, hi |-> hi]
OptHyphen == [kind |-> "class", cls |-> Hyphen, lo |-> 0, hi |-> 1]
OneHyphen == [kind |-> "class", cls |-> Hyphen, lo |-> 1, hi |-> 1]
StartOfText == [kind |-> "^"]
EndOfText == [kind |-> "$"]

\* mutant: the hyphens are required, not optional
PHONE_NUMBER_REGEX_hyphens_required ==
    << StartOfText, Digits(2, 4), OneHyphen, Digits(3, 4), OneHyphen,
       Digits(4, 4), EndOfText >>

\* mutant: the last group takes 3 or 4 digits
PHONE_NUMBER_REGEX_short_last_group ==
    << StartOfText, Digits(2, 4), OptHyphen, Digits(3, 4), OptHyphen,
       Digits(3, 4), EndOfText >>

\* r"^\d{2,4}-?\d{3,4}-?\d{4}$"
PHONE_NUMBER_REGEX ==
    << StartOfText, Digits(2, 4), OptHyphen, Digits(3, 4), OptHyphen,
       Digits(4, 4), EndOfText >>

InClass(cls, c) == IF cls = "d" THEN IsDigit(c) ELSE c = cls

\* mutant: $ also matches just before a final line feed
AtEnd_before_final_newline(s, pos) ==
    \/ pos = Len(s) + 1
    \/ pos = Len(s) /\ s[pos] = "\n"

\* $ without the multi-line flag: only at the very end of the text
AtEnd(s, pos) == pos = Len(s) + 1

\* items k.. of pattern re match some text that starts at position pos of s
RECURSIVE MatchFrom(_, _, _, _)
MatchFrom(re, k, s, pos) ==
    IF k > Len(re) THEN TRUE
    ELSE LET item == re[k] IN
         CASE item.kind = "^" -> pos = 1 /\ MatchFrom(re, k + 1, s, pos)
           [] item.kind = "$" -> AtEnd(s, pos) /\ MatchFrom(re, k + 1, s, pos)
           [] OTHER ->
                \E n \in item.lo..item.hi :
                    /\ pos + n - 1 <= Len(s)
                    /\ \A i \in pos..(pos + n - 1) : InClass(item.cls, s[i])
                    /\ MatchFrom(re, k + 1, s, pos + n)

\* the pattern constraint of a string field: the pattern is searched for in
\* the value
pattern_matches(re, s) == \E start \in 1..(Len(s) + 1) : MatchFrom(re, 1, s, start)

-----------------------------------------------------------------------------
(* UserCreate: the validated request model                                 *)

min_length == 2
max_length == 50

\* mutant: only the first hyphen is removed
standardize_phone_number_first_only(value) ==
    IF \E i \in 1..Len(value) : value[i] = Hyphen
    THEN LET first == CHOOSE i \in 1..Len(value) :
                          /\ value[i] = Hyphen
                          /\ \A j \in 1..(i - 1) : value[j] # Hyphen
         IN SubSeq(value, 1, first - 1) \o SubSeq(value, first + 1, Len(value))
    ELSE value

\* mutant: the value is stored as submitted
standardize_phone_number_identity(value) == value

\* value.replace("-", "")
standardize_phone_number(value) == SelectSeq(value, LAMBDA c : c # Hyphen)

\* the field phone_number: the pattern constraint on the raw value, then the
\* field validator on a value that passed it
phone_number_field(value) ==
    IF pattern_matches(PHONE_NUMBER_REGEX, value)
    THEN [ok |-> TRUE, value |-> standardize_phone_number(value), errors |-> <<>>]
    ELSE [ok |-> FALSE, value |-> value,
          errors |-> << [type |-> "string_pattern_mismatch",
                         loc |-> <<"phone_number">>,
                         ctx |-> [pattern |-> PHONE_NUMBER_REGEX]] >>]

\* mutant: a one-character name is accepted
name_field_min_one(value) ==
    IF Len(value) < 1
    THEN [ok |-> FALSE, value |-> value,
          errors |-> << [type |-> "string_too_short",
                         loc |-> <<"name">>, ctx |-> [min_length |-> 1]] >>]
    ELSE IF Len(value) > max_length
    THEN [ok |-> FALSE, value |-> value,
          errors |-> << [type |-> "string_too_long",
                         loc |-> <<"name">>, ctx |-> [max_length |-> max_length]] >>]
    ELSE [ok |-> TRUE, value |-> value, errors |-> <<>>]

\* the field name: the length constraints on the raw value
name_field(value) ==
    IF Len(value) < min_length
    THEN [ok |-> FALSE, value |-> value,
          errors |-> << [type |-> "string_too_short",
                         loc |-> <<"name">>, ctx |-> [min_length |-> min_length]] >>]
    ELSE IF Len(value) > max_length
    THEN [ok |-> FALSE, value |-> value,
          errors |-> << [type |-> "string_too_long",
                         loc |-> <<"name">>, ctx |-> [max_length |-> max_length]] >>]
    ELSE [ok |-> TRUE, value |-> value, errors |-> <<>>]

\* mutant: the name is validated before the phone number
UserCreate_name_first(p, n) ==
    LET ph == phone_number_field(p)
        nm == name_field(n)
    IN IF ph.ok /\ nm.ok
       THEN [ok |-> TRUE,
             value |-> [phone_number |-> ph.value, name |-> nm.value],
             errors |-> <<>>]
       ELSE [ok |-> FALSE, value |-> None, errors |-> nm.errors \o ph.errors]

\* UserCreate(phone_number=p, name=n): every field is validated, in the order
\* of declaration; the errors of all the fields are raised together
UserCreate(p, n) ==
    LET ph == phone_number_field(p)
        nm == name_field(n)
    IN IF ph.ok /\ nm.ok
       THEN [ok |-> TRUE,
             value |-> [phone_number |-> ph.value, name |-> nm.value],
             errors |-> <<>>]
       ELSE [ok |-> FALSE, value |-> None, errors |-> ph.errors \o nm.errors]

-----------------------------------------------------------------------------
(* The handlers                                                            *)

HTTP_201_CREATED == 201
HTTP_303_SEE_OTHER == 303
HTTP_422_UNPROCESSABLE_ENTITY == 422

\* the text of the f-string of the success message of the form, around the
\* two values it interpolates
success_message(u) ==
    <<"<user '>">> \o u.name \o <<"<' (>">> \o u.phone_number
        \o <<"<) has been registered.>">>

\* the message shown for the first error of a failed validation
error_message_for(error_details) ==
    LET field == error_details.loc[1] IN
    IF field = "phone_number"
    THEN [text |-> "<the phone number format is not valid. (e.g. 010-1234-5678)>"]
    ELSE IF field = "name"
    THEN IF error_details.type = "string_too_short"
         THEN [text |-> "<the name must have at least {} characters.>",
               min_length |-> error_details.ctx.min_length]
         ELSE [text |-> "<check the name.>"]
    ELSE [text |-> "<check the input.>"]

\* mutant: the form is shown again with the phone number without its hyphens
registration_response_echo_stripped(p, n) ==
    LET user_data == UserCreate(p, n) IN
    IF user_data.ok
    THEN [status_code |-> HTTP_303_SEE_OTHER,
          url |-> <<"/register?message=">> \o success_message(user_data.value)]
    ELSE [status_code |-> HTTP_422_UNPROCESSABLE_ENTITY,
          template |-> "register.html",
          context |-> [error |-> error_message_for(user_data.errors[1]),
                       phone_number |-> standardize_phone_number(p),
                       name |-> n]]

\* the response of handle_registration_form to the form fields p and n
registration_response(p, n) ==
    LET user_data == UserCreate(p, n) IN
    IF user_data.ok
    THEN [status_code |-> HTTP_303_SEE_OTHER,
          url |-> <<"/register?message=">> \o success_message(user_data.value)]
    ELSE [status_code |-> HTTP_422_UNPROCESSABLE_ENTITY,
          template |-> "register.html",
          context |-> [error |-> error_message_for(user_data.errors[1]),
                       phone_number |-> p,
                       name |-> n]]

\* what print() adds to the console
notice(via, u) == [via |-> via, name |-> u.name, phone_number |-> u.phone_number]

\* POST /register: the whole handler runs without a suspension point
handle_registration_form(r) ==
    /\ pc[r] = "received"
    /\ endpoint[r] = "/register"
    /\ LET user_data == UserCreate(phone_number[r], name[r]) IN
         /\ stdout' = IF user_data.ok
                      THEN Append(stdout, notice("form", user_data.value))
                      ELSE stdout
         /\ user' = [user EXCEPT ![r] = user_data.value]
         /\ errors' = [errors EXCEPT ![r] = user_data.errors]
         /\ response' = [response EXCEPT
                           ![r] = registration_response(phone_number[r], name[r])]
    /\ pc' = [pc EXCEPT ![r] = "responded"]
    /\ UNCHANGED <<endpoint, phone_number, name>>

\* POST /users/: the body is validated as the parameter user: UserCreate before
\* the handler is called; a body that fails is answered by the framework
bind_user_body(r) ==
    /\ pc[r] = "received"
    /\ endpoint[r] = "/users/"
    /\ LET body == UserCreate(phone_number[r], name[r]) IN
         IF body.ok
         THEN /\ user' = [user EXCEPT ![r] = body.value]
              /\ pc' = [pc EXCEPT ![r] = "bound"]
              /\ UNCHANGED <<errors, response>>
         ELSE /\ errors' = [errors EXCEPT ![r] = body.errors]
              /\ response' = [response EXCEPT
                                ![r] = [status_code |-> HTTP_422_UNPROCESSABLE_ENTITY,
                                        detail |-> body.errors]]
              /\ pc' = [pc EXCEPT ![r] = "responded"]
              /\ UNCHANGED user
    /\ UNCHANGED <<endpoint, phone_number, name, stdout>>

\* what create_user_api returns for the validated body u
UserResponse(u) ==
    [status_code |-> HTTP_201_CREATED,
     phone_number |-> u.phone_number,
     name |-> u.name,
     message |-> <<"<user '>">> \o u.name \o <<"<' has been registered.>">>]

\* mutant: the response is built from the newest registration on the console
create_user_api_newest_registration(r) ==
    /\ pc[r] = "bound"
    /\ stdout' = Append(stdout, notice("api", user[r]))
    /\ response' = [response EXCEPT
                      ![r] = UserResponse(IF stdout = <<>> THEN user[r]
                                          ELSE stdout[Len(stdout)])]
    /\ pc' = [pc EXCEPT ![r] = "responded"]
    /\ UNCHANGED <<endpoint, phone_number, name, user, errors>>

\* mutant: the response carries the phone number as submitted
create_user_api_raw_phone(r) ==
    /\ pc[r] = "bound"
    /\ stdout' = Append(stdout, notice("api", user[r]))
    /\ response' = [response EXCEPT
                      ![r] = UserResponse([phone_number |-> phone_number[r],
                                           name |-> name[r]])]
    /\ pc' = [pc EXCEPT ![r] = "responded"]
    /\ UNCHANGED <<endpoint, phone_number, name, user, errors>>

\* the body of create_user_api
create_user_api(r) ==
    /\ pc[r] = "bound"
    /\ stdout' = Append(stdout, notice("api", user[r]))
    /\ response' = [response EXCEPT ![r] = UserResponse(user[r])]
    /\ pc' = [pc EXCEPT ![r] = "responded"]
    /\ UNCHANGED <<endpoint, phone_number, name, user, errors>>

-----------------------------------------------------------------------------
(* Requests                                                                *)

Reqs == 1..MaxReq

\* the shape of a run of n digits
Run(n) == [i \in 1..n |-> "d"]

\* the string of a shape: the digit at a position is set by the position, so
\* that no two neighbouring digits are the same
Concrete(shape) ==
    [i \in 1..Len(shape) |->
        IF shape[i] = "d" THEN AsciiDigits[(i % 10) + 1] ELSE shape[i]]

Separators == {<<>>, <<Hyphen>>, <<Hyphen, Hyphen>>}
Prefixes == {<<>>, <<" ">>, <<ArabicDigit>>}
Suffixes == {<<>>, <<"\n">>}

\* up to three runs of digits, of lengths around those of the three groups,
\* with nothing, one hyphen or two between them, and something before or after
GeneratedPhones ==
    { Concrete(pre \o Run(n1) \o s1 \o Run(n2) \o s2 \o Run(n3) \o post) :
        pre \in Prefixes, n1 \in 1..MaxRun, s1 \in Separators,
        n2 \in 2..MaxRun, s2 \in Separators, n3 \in 3..MaxRun, post \in Suffixes }

ExamplePhones ==
    { <<>>, <<"a", "b", "c">>, <<"1", "2", "3">>,
      <<"0", "1", "0", "-", "1", "2", "-", "5", "6", "7", "8">>,
      <<"0", "1", "0", "-", "1", "2", "3", "4", "-", "5", "6", "7">>,
      <<"0", "1", "0", "-", "1", "2", "3", "4", "-", "5", "6", "7", "8">>,
      <<"0", "1", "0", "1", "2", "3", "4", "5", "6", "7", "8">> }

PhoneInputs == GeneratedPhones \cup ExamplePhones

NameLens == {n \in 0..MaxNameLen : n <= min_length + 1 \/ n >= max_length - 1}

\* a name of n characters, the first one a space when padded
NameOf(n, padded) ==
    [i \in 1..n |-> IF padded /\ i = 1 THEN " " ELSE IF i % 2 = 1 THEN "A" ELSE "l"]

NameInputs == { NameOf(n, padded) : n \in NameLens, padded \in BOOLEAN }

Endpoints == {"/register", "/users/"}

\* a required form field that is empty is answered by the framework and
\* never reaches handle_registration_form; a JSON string may be empty
Deliverable(e, p, n) == e = "/users/" \/ (p # <<>> /\ n # <<>>)

\* one request, any input
Init ==
    \E e \in Endpoints, p \in PhoneInputs, n \in NameInputs :
        /\ Deliverable(e, p, n)
        /\ endpoint = [r \in Reqs |-> IF r = 1 THEN e ELSE "none"]
        /\ phone_number = [r \in Reqs |-> IF r = 1 THEN p ELSE <<>>]
        /\ name = [r \in Reqs |-> IF r = 1 THEN n ELSE <<>>]
        /\ pc = [r \in Reqs |-> IF r = 1 THEN "received" ELSE "none"]
        /\ user = [r \in Reqs |-> None]
        /\ errors = [r \in Reqs |-> <<>>]
        /\ response = [r \in Reqs |-> None]
        /\ stdout = <<>>

Next ==
    \E r \in Reqs :
        \/ handle_registration_form(r)
        \/ bind_user_body(r)
        \/ create_user_api(r)

Spec == Init /\ [][Next]_vars

\* the inputs of the requests that run side by side
FewPhones ==
    { <<"0", "1", "0", "-", "1", "2", "3", "4", "-", "5", "6", "7", "8">>,
      <<"0", "1", "0", "1", "2", "3", "4", "5", "6", "7", "8">>,
      <<"0", "1", "0", "-", "1", "2", "-", "5", "6", "7", "8">> }

FewNames == { <<"A">>, <<"A", "l">>, <<"B", "o">> }

\* MaxReq requests received and not yet handled, any inputs
InitMany ==
    /\ endpoint \in [Reqs -> Endpoints]
    /\ phone_number \in [Reqs -> FewPhones]
    /\ name \in [Reqs -> FewNames]
    /\ pc = [r \in Reqs |-> "received"]
    /\ user = [r \in Reqs |-> None]
    /\ errors = [r \in Reqs |-> <<>>]
    /\ response = [r \in Reqs |-> None]
    /\ stdout = <<>>

SpecMany == InitMany /\ [][Next]_vars

-----------------------------------------------------------------------------
(* What the claims are stated with                                         *)

\* s is 2 to 4 digits, 3 to 4 digits and 4 digits, with an optional hyphen
\* after the first group and after the second, and nothing else
WellFormedPhone(s) ==
    \E a \in 2..4, h1 \in 0..1, b \in 3..4, h2 \in 0..1 :
        /\ Len(s) = a + h1 + b + h2 + 4
        /\ \A i \in 1..Len(s) :
              IF (h1 = 1 /\ i = a + 1) \/ (h2 = 1 /\ i = a + h1 + b + 1)
              THEN s[i] = Hyphen
              ELSE IsDigit(s[i])

\* s with every hyphen taken out, one character at a time
RECURSIVE WithoutHyphens(_)
WithoutHyphens(s) ==
    IF s = <<>> THEN <<>>
    ELSE IF Head(s) = Hyphen THEN WithoutHyphens(Tail(s))
    ELSE <<Head(s)>> \o WithoutHyphens(Tail(s))

HasHyphen(s) == \E i \in 1..Len(s) : s[i] = Hyphen

NameInRange(n) == Len(n) >= 2 /\ Len(n) <= 50

\* sub occurs in s
Contains(s, sub) ==
    \E i \in 1..(Len(s) - Len(sub) + 1) : SubSeq(s, i, i + Len(sub) - 1) = sub

\* the request has been validated
Validated(r) == pc[r] \in {"bound", "responded"}

Responded(r) == pc[r] = "responded"

\* the request was validated and a UserCreate came out of it
Succeeded(r) == Validated(r) /\ user[r] # None

\* the request was validated and a ValidationError came out of it
Failed(r) == Validated(r) /\ user[r] = None

\* the request got as far as the registration notice
Registered(r) == Responded(r) /\ user[r] # None

\* the field of the error that is reported first
ReportedField(r) == errors[r][1].loc[1]

ReportedType(r) == errors[r][1].type

-----------------------------------------------------------------------------
(* C1 *)

\* C1: whenever the submitted phone_number is 2-4 digits, 3-4 digits and 4
\* digits with optional hyphens between the groups and the name has 2 to 50
\* characters, validation succeeds, and the phone_number of the UserCreate has
\* no hyphen and is the submitted one with every hyphen removed.
C1_MatchingPhoneIsAcceptedAndStripped ==
    \A r \in Reqs :
        (Validated(r) /\ WellFormedPhone(phone_number[r]) /\ NameInRange(name[r]))
        => /\ Succeeded(r)
           /\ errors[r] = <<>>
           /\ ~HasHyphen(user[r].phone_number)
           /\ user[r].phone_number = WithoutHyphens(phone_number[r])

\* a phone number with two hyphens was accepted and lost both
C1_Witness ==
    \E r \in Reqs :
        /\ Succeeded(r)
        /\ Len(phone_number[r]) = Len(user[r].phone_number) + 2
        /\ WellFormedPhone(phone_number[r])

-----------------------------------------------------------------------------
(* C2 *)

\* C2: whenever the submitted phone_number is not of that form, validation
\* fails whatever the name is, the first error reported has field
\* phone_number and is the pattern mismatch, no UserCreate is produced, and
\* nothing is registered: the answer is a 422 and the console holds a notice
\* for the registered requests only.
C2_OtherPhoneIsRejected ==
    \A r \in Reqs :
        (Validated(r) /\ ~WellFormedPhone(phone_number[r]))
        => /\ Failed(r)
           /\ Responded(r)
           /\ errors[r] # <<>>
           /\ ReportedField(r) = "phone_number"
           /\ ReportedType(r) = "string_pattern_mismatch"
           /\ response[r].status_code = 422
           /\ Len(stdout) = Cardinality({q \in Reqs : Registered(q)})

\* 010-1234-567 with a name in range was rejected
C2_Witness ==
    \E r \in Reqs :
        /\ Failed(r)
        /\ phone_number[r] =
              <<"0", "1", "0", "-", "1", "2", "3", "4", "-", "5", "6", "7">>
        /\ NameInRange(name[r])
        /\ ReportedField(r) = "phone_number"

-----------------------------------------------------------------------------
(* C3 *)

NameTooShort(n) == Len(n) < 2
NameTooLong(n) == Len(n) > 50

\* the raised errors hold one for the name, of type t
HasNameError(r, t) ==
    \E i \in 1..Len(errors[r]) :
        errors[r][i].loc = <<"name">> /\ errors[r][i].type = t

\* C3 as stated: whenever the name has fewer than 2 or more than 50
\* characters, validation fails and the error reported has field name.
C3_AsStated ==
    \A r \in Reqs :
        (Validated(r) /\ (NameTooShort(name[r]) \/ NameTooLong(name[r])))
        => Failed(r) /\ ReportedField(r) = "name"

\* C3 as amended: whenever the name has fewer than 2 or more than 50
\* characters (counted on the raw string), validation fails and the raised
\* errors hold one with field name, too short with minimum 2 for a name of 0
\* or 1 characters and too long for a name of more than 50; that error is the
\* one reported first exactly when the phone_number is of the accepted form,
\* and otherwise the error reported first has field phone_number.
C3_BadNameIsRejected ==
    \A r \in Reqs :
        (Validated(r) /\ (NameTooShort(name[r]) \/ NameTooLong(name[r])))
        => /\ Failed(r)
           /\ NameTooShort(name[r]) =>
                 /\ HasNameError(r, "string_too_short")
                 /\ \A i \in 1..Len(errors[r]) :
                       errors[r][i].loc = <<"name">>
                       => errors[r][i].ctx = [min_length |-> 2]
           /\ NameTooLong(name[r]) => HasNameError(r, "string_too_long")
           /\ IF WellFormedPhone(phone_number[r])
              THEN /\ ReportedField(r) = "name"
                   /\ ReportedType(r) = IF NameTooShort(name[r])
                                        THEN "string_too_short"
                                        ELSE "string_too_long"
              ELSE ReportedField(r) = "phone_number"

\* a one-character name with an accepted phone number was rejected for the name
C3_Witness ==
    \E r \in Reqs :
        /\ Failed(r)
        /\ Len(name[r]) = 1
        /\ WellFormedPhone(phone_number[r])
        /\ ReportedField(r) = "name"
        /\ ReportedType(r) = "string_too_short"

-----------------------------------------------------------------------------
(* C4 *)

\* C4: every UserCreate that validation produces has a phone_number of digits
\* only, 9 to 12 of them, and the submitted name unchanged, of 2 to 50
\* characters; and a request is answered as a success (201 or 303) only with
\* such a UserCreate.
C4_OutputInvariant ==
    \A r \in Reqs :
        /\ Succeeded(r) =>
              /\ \A i \in 1..Len(user[r].phone_number) :
                    IsDigit(user[r].phone_number[i])
              /\ Len(user[r].phone_number) >= 9
              /\ Len(user[r].phone_number) <= 12
              /\ user[r].name = name[r]
              /\ NameInRange(user[r].name)
        /\ (Responded(r) /\ response[r].status_code \in {201, 303}) => Succeeded(r)

\* a phone number of the longest form with a name of 50 characters got through
C4_Witness ==
    \E r \in Reqs :
        /\ Succeeded(r)
        /\ Responded(r)
        /\ Len(user[r].phone_number) = 12
        /\ Len(user[r].name) = 50
        /\ HasHyphen(phone_number[r])

-----------------------------------------------------------------------------
(* C5 *)

\* C5: stripping is idempotent: stripping the stripped form of any submitted
\* phone_number gives the stripped form again, and stripping the phone_number
\* of a UserCreate, which has no hyphen, gives it back.
C5_StrippingIsIdempotent ==
    \A r \in Reqs :
        /\ LET once == standardize_phone_number(phone_number[r])
           IN standardize_phone_number(once) = once
        /\ Succeeded(r) =>
              standardize_phone_number(user[r].phone_number) = user[r].phone_number

\* the stripped form of a phone number with hyphens was stored and stripping
\* it again leaves it as it is
C5_Witness ==
    \E r \in Reqs :
        /\ Succeeded(r)
        /\ HasHyphen(phone_number[r])
        /\ user[r].phone_number # phone_number[r]
        /\ standardize_phone_number(user[r].phone_number) = user[r].phone_number

-----------------------------------------------------------------------------
(* C6 *)

ValidInput(r) == WellFormedPhone(phone_number[r]) /\ NameInRange(name[r])

\* the registration notices on the console that come from the JSON API
ApiNotices == SelectSeq(stdout, LAMBDA x : x.via = "api")

\* C6: a request to POST /users/ is answered in one of two ways.  A body that
\* passes validation is answered 201 with the phone_number without hyphens,
\* the submitted name and a message.  A body that fails validation is
\* answered 422 with the validation errors, and the handler body is never
\* entered for it: it is never bound to the handler, and the console holds one
\* API notice for each request answered 201 and no other.
C6_UsersApiOutcomes ==
    /\ \A r \in Reqs :
          (endpoint[r] = "/users/" /\ Responded(r))
          => IF ValidInput(r)
             THEN /\ response[r].status_code = 201
                  /\ response[r].phone_number = WithoutHyphens(phone_number[r])
                  /\ ~HasHyphen(response[r].phone_number)
                  /\ response[r].name = name[r]
                  /\ Contains(response[r].message, name[r])
             ELSE /\ response[r].status_code = 422
                  /\ response[r].detail # <<>>
                  /\ response[r].detail = errors[r]
                  /\ user[r] = None
    /\ \A r \in Reqs :
          (endpoint[r] = "/users/" /\ pc[r] = "bound") => ValidInput(r)
    /\ Len(ApiNotices) =
          Cardinality({r \in Reqs : /\ endpoint[r] = "/users/"
                                    /\ Responded(r)
                                    /\ response[r].status_code = 201})

\* a body with a hyphenated phone number was answered 201
C6_Witness ==
    \E r \in Reqs :
        /\ endpoint[r] = "/users/"
        /\ Responded(r)
        /\ response[r].status_code = 201
        /\ HasHyphen(phone_number[r])
        /\ Len(ApiNotices) = 1

-----------------------------------------------------------------------------
(* C7 *)

-----------------------------------------------------------------------------
(* C8 *)

PhoneMessage == [text |-> "<the phone number format is not valid. (e.g. 010-1234-5678)>"]

-----------------------------------------------------------------------------
(* C10 *)

\* C10: validation is closed under its output: the phone_number of every
\* UserCreate is itself of the accepted form, and validating the UserCreate's
\* phone_number and name again succeeds and gives the same UserCreate.  The
\* pattern is checked on the raw input: only input of the accepted form
\* produces a UserCreate.
C10_ClosedUnderOutput ==
    \A r \in Reqs :
        Succeeded(r)
        => /\ WellFormedPhone(phone_number[r])
           /\ WellFormedPhone(user[r].phone_number)
           /\ LET again == UserCreate(user[r].phone_number, user[r].name)
              IN again.ok /\ again.value = user[r]

\* the stripped form of a hyphenated phone number validates to itself
C10_Witness ==
    \E r \in Reqs :
        /\ Succeeded(r)
        /\ HasHyphen(phone_number[r])
        /\ UserCreate(user[r].phone_number, user[r].name).value = user[r]
        /\ Len(user[r].name) = 2

-----------------------------------------------------------------------------
(* C9 *)

\* what a request is answered with is what its own input determines
OwnOutcome(r) ==
    /\ response[r].status_code =
          IF ~ValidInput(r) THEN 422
          ELSE IF endpoint[r] = "/users/" THEN 201 ELSE 303
    /\ ValidInput(r) =>
          /\ user[r] = [phone_number |-> WithoutHyphens(phone_number[r]),
                        name |-> name[r]]
          /\ errors[r] = <<>>
          /\ endpoint[r] = "/users/" =>
                /\ response[r].phone_number = WithoutHyphens(phone_number[r])
                /\ response[r].name = name[r]
          /\ endpoint[r] = "/register" =>
                Contains(response[r].url,
                         name[r] \o <<"<' (>">> \o WithoutHyphens(phone_number[r]))
    /\ ~ValidInput(r) =>
          /\ user[r] = None
          /\ ReportedField(r) =
                IF WellFormedPhone(phone_number[r]) THEN "name" ELSE "phone_number"
          /\ endpoint[r] = "/register" =>
                /\ response[r].context.phone_number = phone_number[r]
                /\ response[r].context.name = name[r]

\* two requests with the same route and input are answered alike
SameInputSameOutcome(r, q) ==
    (/\ Responded(r) /\ Responded(q)
     /\ endpoint[r] = endpoint[q]
     /\ phone_number[r] = phone_number[q]
     /\ name[r] = name[q])
    => /\ response[r] = response[q]
       /\ user[r] = user[q]
       /\ errors[r] = errors[q]

\* a step is the step of one request r: it leaves every other request as it
\* was and the input of r too; the console is left alone or gets the notice
\* of r; and the validation of r leaves the console alone
StepOfOneRequest ==
    \E r \in Reqs :
        /\ \A q \in Reqs \ {r} :
              /\ pc'[q] = pc[q]
              /\ user'[q] = user[q]
              /\ errors'[q] = errors[q]
              /\ response'[q] = response[q]
        /\ endpoint' = endpoint
        /\ phone_number' = phone_number
        /\ name' = name
        /\ \/ stdout' = stdout
           \/ /\ Len(stdout') = Len(stdout) + 1
              /\ SubSeq(stdout', 1, Len(stdout)) = stdout
              /\ stdout'[Len(stdout')].name = name[r]
              /\ stdout'[Len(stdout')].phone_number = WithoutHyphens(phone_number[r])
        /\ (pc[r] = "received" /\ pc'[r] = "bound") => stdout' = stdout
        /\ user'[r] = None => stdout' = stdout

\* C9: requests are independent.  However the steps of the requests to
\* /register and /users/ interleave, each request is answered with the status,
\* phone_number, name and error field that its own phone_number and name
\* determine, two requests with the same input are answered alike, and a step
\* of one request changes nothing of another: validation writes nothing that
\* requests share, and the console only gets the notice of the request that
\* registered.
C9_RequestsAreIndependent ==
    /\ [](\A r \in Reqs : Responded(r) => OwnOutcome(r))
    /\ [](\A r, q \in Reqs : SameInputSameOutcome(r, q))
    /\ [][StepOfOneRequest]_vars

\* a request was handled from start to end while another one, with another
\* name, was between its validation and the body of its handler
C9_Witness ==
    \E r, q \in Reqs :
        /\ r # q
        /\ pc[r] = "bound"
        /\ Responded(q)
        /\ user[q] # None
        /\ user[q] # user[r]
        /\ stdout # <<>>

=============================================================================
